---- MODULE Spec2Model ----
(***************************************************************************)
(* slorado: the pipeline driver basecaller_main                            *)
(* (src/src/basecaller_main.cpp).                                          *)
(*                                                                         *)
(* The driver parses its options, opens the input, creates the model       *)
(* runner and then loops: fetch a record, preprocess, chunk, basecall,     *)
(* stitch, write.  The reader (slow5_get_next), the trimmer, the chunker   *)
(* (chunks_from_tensor), basecall_chunks and stitch_chunks are called by   *)
(* the driver but defined elsewhere; the chunker and the batching loop are *)
(* modelled from the design document (sections 4.2 and 4.3).               *)
(***************************************************************************)
EXTENDS Integers, Sequences, FiniteSets, TLC

VARIABLES
    pc,           \* position of the driver
    status,       \* "none" while running, then the exit status
    err,          \* which diagnostic ended the run ("none" if none)
    opt,          \* opt_t: the fields the driver reads after parsing
    fp_help,      \* "stderr", or "stdout" once -h was seen
    nparsed,      \* options returned by getopt_long so far
    runners,      \* ModelRunner instances created
    ret,          \* last return value of slow5_get_next
    slow5_errno,  \* the reader's error indicator
    ncalls,       \* calls to slow5_get_next
    rec,          \* the record the reader filled last
    fetched,      \* identifiers of the reads the reader yielded, in order
    signalLen,    \* length of the trimmed, scaled signal of the read in hand
    chunks,       \* chunks of the read in hand
    ncalled,      \* chunks of the read in hand that have a ChunkCall
    batchesRun,   \* batches executed since the start of the run
    stitched,     \* the stitched read in hand (at most one)
    written       \* records handed to the writer, in order

vars == <<pc, status, err, opt, fp_help, nparsed, runners, ret,
          slow5_errno, ncalls, rec, fetched, signalLen, chunks, ncalled,
          batchesRun, stitched, written>>

(***************************************************************************)
(* Bounds of the model.                                                    *)
(***************************************************************************)
MaxArgs == 2          \* options on the command line
MaxOptVal == 2        \* largest integer given to an option
MaxReads == 2         \* reads in the input stream
MaxLen == 4           \* samples of a short read
MaxSignalLen == 9     \* chunker alone: signal length
MaxChunkSize == 4     \* chunker alone: chunk size

(***************************************************************************)
(* Program constants.                                                      *)
(***************************************************************************)
SLOW5_ERR_EOF == -1                  \* slow5lib: end of file
SLOW5_ERR_IO == SLOW5_ERR_EOF - 4    \* slow5lib: another negative code
TrimWindow == 8000

Min(a, b) == IF a < b THEN a ELSE b

OptVals == 0..MaxOptVal
ReadIds == {"r1", "r2"}
\* Lengths of the reads the reader yields: short reads, and one long read
\* (16000 samples) where the chunk size keeps its number of chunks small.
ReadLens(C) == {l \in (1..MaxLen) \cup {16000} : l <= MaxLen * C}
NegCodes == {SLOW5_ERR_EOF, SLOW5_ERR_IO}
NoRec == [read_id |-> "none", len |-> 0]

\* init_opt: the defaults, as the option table documents them; debug_break
\* has no documented default and starts at 0 (no break).
InitOpt == [batch_size |-> 512, chunk_size |-> 8000, overlap |-> 150,
            num_runners |-> 1, debug_break |-> 0]

Init ==
    /\ pc = "parse"
    /\ status = "none"
    /\ err = "none"
    /\ opt = InitOpt
    /\ fp_help = "stderr"
    /\ nparsed = 0
    /\ runners = {}
    /\ ret = 0
    /\ slow5_errno = 0
    /\ ncalls = 0
    /\ rec = NoRec
    /\ fetched = <<>>
    /\ signalLen = 0
    /\ chunks = <<>>
    /\ ncalled = 0
    /\ batchesRun = 0
    /\ stitched = <<>>
    /\ written = <<>>

runVars == <<runners, ret, slow5_errno, ncalls, rec, fetched,
             signalLen, chunks, ncalled, batchesRun, stitched, written>>

\* exit(code) / return code from basecaller_main.
Exit(code, why) ==
    /\ pc' = "exit"
    /\ status' = code
    /\ err' = why

(***************************************************************************)
(* Option parsing, lines 118-185.  One action per branch of the loop body; *)
(* nparsed counts the iterations.                                          *)
(***************************************************************************)
Parsing == pc = "parse" /\ nparsed < MaxArgs

\* A numeric option: store atoi(optarg) in a field, reject values below 1.
SetChecked(field, v, why) ==
    /\ Parsing
    /\ nparsed' = nparsed + 1
    /\ opt' = [opt EXCEPT ![field] = v]
    /\ IF v < 1
       THEN Exit("EXIT_FAILURE", why)
       ELSE UNCHANGED <<pc, status, err>>
    /\ UNCHANGED <<fp_help, runVars>>

OptK == \E v \in OptVals : SetChecked("batch_size", v, "batch_size")
Optc == \E v \in OptVals : SetChecked("chunk_size", v, "chunk_size")
Optp == \E v \in OptVals : SetChecked("overlap", v, "overlap")
Optr == \E v \in OptVals : SetChecked("num_runners", v, "num_runners")

\* -t and -B: the same check; the values are not read again by the driver.
OptChecked ==
    /\ Parsing
    /\ nparsed' = nparsed + 1
    /\ \E v \in OptVals, why \in {"num_thread", "batch_size_bytes"} :
         IF v < 1
         THEN Exit("EXIT_FAILURE", why)
         ELSE UNCHANGED <<pc, status, err>>
    /\ UNCHANGED <<opt, fp_help, runVars>>

OptV ==
    /\ Parsing
    /\ nparsed' = nparsed + 1
    /\ Exit("EXIT_SUCCESS", "version")
    /\ UNCHANGED <<opt, fp_help, runVars>>

Opth ==
    /\ Parsing
    /\ nparsed' = nparsed + 1
    /\ fp_help' = "stdout"
    /\ UNCHANGED <<pc, status, err, opt, runVars>>

OptDebugBreak ==
    /\ Parsing
    /\ nparsed' = nparsed + 1
    /\ \E v \in OptVals : opt' = [opt EXCEPT !.debug_break = v]
    /\ UNCHANGED <<pc, status, err, fp_help, runVars>>

\* -o: the output file is opened at once.
Opto ==
    /\ Parsing
    /\ nparsed' = nparsed + 1
    /\ \E ok \in BOOLEAN :
         IF ok
         THEN UNCHANGED <<pc, status, err>>
         ELSE Exit("EXIT_FAILURE", "output")
    /\ UNCHANGED <<opt, fp_help, runVars>>

\* -v, -x, --profile-cpu, --accel, --emit-fastq: nothing the driver's control
\* flow reads.
OptOther ==
    /\ Parsing
    /\ nparsed' = nparsed + 1
    /\ UNCHANGED <<pc, status, err, opt, fp_help, runVars>>

\* getopt_long returns -1; then the positional arguments, lines 187-214.
EndOfOptions ==
    /\ pc = "parse"
    /\ \E npos \in 1..3 :
         IF npos # 2 \/ fp_help = "stdout"
         THEN IF fp_help = "stdout"
              THEN Exit("EXIT_SUCCESS", "help")
              ELSE Exit("EXIT_FAILURE", "usage")
         ELSE /\ pc' = "open"
              /\ UNCHANGED <<status, err>>
    /\ UNCHANGED <<opt, fp_help, nparsed, runVars>>

\* slow5_open, lines 240-246.
OpenSlow5 ==
    /\ pc = "open"
    /\ \E ok \in BOOLEAN :
         IF ok
         THEN pc' = "runner" /\ UNCHANGED <<status, err>>
         ELSE Exit("EXIT_FAILURE", "open")
    /\ UNCHANGED <<opt, fp_help, nparsed, runVars>>

\* Line 249: one ModelRunner object is constructed.
CreateModelRunner ==
    /\ pc = "runner"
    /\ runners' = {1}
    /\ pc' = "read"
    /\ UNCHANGED <<status, err, opt, fp_help, nparsed, ret, slow5_errno,
                   ncalls, rec, fetched, signalLen, chunks, ncalled,
                   batchesRun, stitched, written>>

(***************************************************************************)
(* The external reader.  A call yields a record (ret >= 0) or a negative   *)
(* code; the driver tests ret and slow5_errno separately, so the model     *)
(* lets them differ.  The stream holds at most MaxReads reads.             *)
(***************************************************************************)
parseVars == <<opt, fp_help, nparsed>>

\* Lines 257-265, the reader yields a record.
GetNextRecord ==
    /\ pc = "read"
    /\ Len(fetched) < MaxReads
    /\ \E id \in ReadIds, len \in ReadLens(opt.chunk_size) :
         /\ rec' = [read_id |-> id, len |-> len]
         /\ fetched' = Append(fetched, id)
    /\ ret' = 0
    /\ ncalls' = ncalls + 1
    /\ pc' = "prep"
    /\ UNCHANGED <<status, err, parseVars, runners, slow5_errno,
                   signalLen, chunks, ncalled, batchesRun, stitched, written>>

\* GetNextFail without the return of line 260: on an error the loop body goes
\* on with the record of the previous call.
GetNextFailFallsThrough ==
    /\ pc = "read"
    /\ ncalls <= MaxReads
    /\ \E r \in NegCodes, e \in NegCodes :
         /\ ret' = r
         /\ slow5_errno' = e
         /\ IF e # SLOW5_ERR_EOF
            THEN IF rec = NoRec
                 THEN Exit("EXIT_FAILURE", "reader")
                 ELSE pc' = "prep" /\ UNCHANGED <<status, err>>
            ELSE pc' = "loop_exit" /\ UNCHANGED <<status, err>>
    /\ ncalls' = ncalls + 1
    /\ UNCHANGED <<parseVars, runners, rec, fetched, signalLen,
                   chunks, ncalled, batchesRun, stitched, written>>

\* Lines 257-264, the reader returns a negative code.
GetNextFail ==
    /\ pc = "read"
    /\ ncalls <= MaxReads
    /\ \E r \in NegCodes, e \in NegCodes :
         /\ ret' = r
         /\ slow5_errno' = e
         /\ IF e # SLOW5_ERR_EOF
            THEN Exit("EXIT_FAILURE", "reader")
            ELSE pc' = "loop_exit" /\ UNCHANGED <<status, err>>
    /\ ncalls' = ncalls + 1
    /\ UNCHANGED <<parseVars, runners, rec, fetched, signalLen,
                   chunks, ncalled, batchesRun, stitched, written>>

\* trim_signal looks at the first TrimWindow samples and returns an index
\* into them (0 when it finds no threshold crossing).
TrimStarts(len) == {t \in {0, 1, 200} : t < Min(len, TrimWindow)}

\* Lines 269-283: tensor_from_record, trim_signal, the slice, scale_signal.
PrepareSignal ==
    /\ pc = "prep"
    /\ \E trim_start \in TrimStarts(rec.len) :
         signalLen' = rec.len - trim_start
    /\ pc' = "chunk"
    /\ UNCHANGED <<status, err, parseVars, runners, ret,
                   slow5_errno, ncalls, rec, fetched, chunks, ncalled,
                   batchesRun, stitched, written>>

(***************************************************************************)
(* The chunker (section 4.2): start at offset 0, step forward by C - O,    *)
(* clip the final chunk to the remaining samples.                          *)
(***************************************************************************)
RECURSIVE ChunksFrom(_, _, _, _)
ChunksFrom(offset, L, C, O) ==
    IF offset + C >= L
    THEN << [offset |-> offset, len |-> L - offset] >>
    ELSE << [offset |-> offset, len |-> C] >>
         \o ChunksFrom(offset + (C - O), L, C, O)

\* The chunker stepping by C instead of C - O.
chunks_from_tensor_step_C(L, C, O) == ChunksFrom(0, L, C, 0)

chunks_from_tensor(L, C, O) == ChunksFrom(0, L, C, O)

\* The chunker's loop ends with the chunk that reaches the end of the signal.
\* A signal no longer than C is one chunk; a longer one needs the offset to
\* advance, C - O > 0: with O >= C the step is zero or backwards and the end
\* is never reached.
ChunkerReturns(L, C, O) == L <= C \/ C - O > 0

\* Line 287: the call of chunks_from_tensor with the configured chunk size
\* and overlap.  Where the chunker does not return, the driver stays in the
\* call ("chunk_loop") for good.
SplitSignal ==
    /\ pc = "chunk"
    /\ IF ChunkerReturns(signalLen, opt.chunk_size, opt.overlap)
       THEN /\ chunks' = chunks_from_tensor(signalLen, opt.chunk_size,
                                            opt.overlap)
            /\ pc' = "basecall"
       ELSE /\ chunks' = chunks
            /\ pc' = "chunk_loop"
    /\ UNCHANGED <<status, err, parseVars, runners, ret,
                   slow5_errno, ncalls, rec, fetched, signalLen, ncalled,
                   batchesRun, stitched, written>>

(***************************************************************************)
(* basecall_chunks, line 291 (section 4.3): the chunks go to the runner in *)
(* batches of at most batch_size, a short final batch included; one step   *)
(* is one batch run to its end.                                            *)
(***************************************************************************)
BatchLen == Min(opt.batch_size, Len(chunks) - ncalled)

RunBatch ==
    /\ pc = "basecall"
    /\ ncalled < Len(chunks)
    /\ ncalled' = ncalled + BatchLen
    /\ batchesRun' = batchesRun + 1
    /\ pc' = IF ncalled' = Len(chunks) THEN "stitch" ELSE "basecall"
    /\ UNCHANGED <<status, err, parseVars, runners, ret, slow5_errno,
                   ncalls, rec, fetched, signalLen, chunks, stitched,
                   written>>

\* Lines 294-298: stitch_chunks merges the chunk calls into one read.
StitchChunks ==
    /\ pc = "stitch"
    /\ stitched' = << [parts |-> ncalled] >>
    /\ pc' = "write"
    /\ UNCHANGED <<status, err, parseVars, runners, ret,
                   slow5_errno, ncalls, rec, fetched, signalLen, chunks,
                   ncalled, batchesRun, written>>

\* WriteToFile that hands nothing to the writer when the read made one chunk.
WriteToFileSkipsShort ==
    /\ pc = "write"
    /\ written' = IF Len(chunks) > 1 THEN Append(written, rec.read_id)
                                     ELSE written
    /\ signalLen' = 0
    /\ chunks' = <<>>
    /\ ncalled' = 0
    /\ stitched' = <<>>
    /\ pc' = "read"
    /\ UNCHANGED <<status, err, parseVars, runners, ret,
                   slow5_errno, ncalls, rec, fetched, batchesRun>>

\* Lines 300-305: write_to_file with rec->read_id; the iteration ends and its
\* locals (signal, chunks, sequence, qstring) go out of scope.
WriteToFile ==
    /\ pc = "write"
    /\ written' = Append(written, rec.read_id)
    /\ signalLen' = 0
    /\ chunks' = <<>>
    /\ ncalled' = 0
    /\ stitched' = <<>>
    /\ pc' = "read"
    /\ UNCHANGED <<status, err, parseVars, runners, ret,
                   slow5_errno, ncalls, rec, fetched, batchesRun>>

\* Lines 306-331: after the loop.
LoopExit ==
    /\ pc = "loop_exit"
    /\ IF ret # SLOW5_ERR_EOF
       THEN Exit("EXIT_FAILURE", "not_eof")
       ELSE Exit("EXIT_SUCCESS", "none")
    /\ UNCHANGED <<parseVars, runVars>>

Next ==
    \/ OptK \/ Optc \/ Optp \/ Optr \/ OptChecked \/ OptV \/ Opth
    \/ OptDebugBreak \/ Opto \/ OptOther \/ EndOfOptions
    \/ OpenSlow5 \/ CreateModelRunner
    \/ GetNextRecord \/ GetNextFail \/ PrepareSignal \/ SplitSignal
    \/ RunBatch \/ StitchChunks \/ WriteToFile
    \/ LoopExit

Spec == Init /\ [][Next]_vars

\* The driver is one thread: whenever it has a next step it takes it.  A call
\* that does not return (SplitSignal's "chunk_loop") leaves it no next step,
\* and fairness does not carry it on from there.
FairSpec == Spec /\ WF_vars(Next)

(***************************************************************************)
(* The chunker on its own: every signal length, chunk size and overlap of  *)
(* its contract, within the bounds.                                        *)
(***************************************************************************)
InitChunker ==
    /\ pc = "chunker_call"
    /\ status = "none"
    /\ err = "none"
    /\ \E C \in 1..MaxChunkSize, O \in 0..MaxChunkSize :
         /\ O < C
         /\ opt = [InitOpt EXCEPT !.chunk_size = C, !.overlap = O]
    /\ fp_help = "stderr"
    /\ nparsed = 0
    /\ runners = {}
    /\ ret = 0
    /\ slow5_errno = 0
    /\ ncalls = 0
    /\ rec = NoRec
    /\ fetched = <<>>
    /\ signalLen \in 1..MaxSignalLen
    /\ chunks = <<>>
    /\ ncalled = 0
    /\ batchesRun = 0
    /\ stitched = <<>>
    /\ written = <<>>

ChunkerApply ==
    /\ pc = "chunker_call"
    /\ chunks' = chunks_from_tensor(signalLen, opt.chunk_size, opt.overlap)
    /\ pc' = "chunker_done"
    /\ UNCHANGED <<status, err, parseVars, runners, ret,
                   slow5_errno, ncalls, rec, fetched, signalLen, ncalled,
                   batchesRun, stitched, written>>

NextChunker == ChunkerApply

SpecChunker == InitChunker /\ [][NextChunker]_vars

(***************************************************************************)
(* Properties.                                                             *)
(***************************************************************************)
InvalidConfig ==
    \/ opt.chunk_size <= 0
    \/ opt.batch_size <= 0
    \/ opt.overlap >= opt.chunk_size

\* C1: under an invalid configuration (chunk size <= 0, batch size <= 0 or
\* overlap >= chunk size) the reader is never called and nothing is written.
C1_InvalidConfigFailsFast ==
    InvalidConfig => ncalls = 0 /\ written = <<>>

\* C2: a configuration with chunk size C > 0 and overlap 0 <= O < C is never
\* rejected by the overlap check of the option parser.
C2_OverlapInContractAccepted ==
    err = "overlap" =>
        ~(opt.chunk_size > 0 /\ opt.overlap >= 0 /\ opt.overlap < opt.chunk_size)

\* C3: the records handed to the writer are the identifiers of the reads the
\* reader yielded, in the reader's order, one per read; while a read is being
\* processed exactly its record is missing, and whenever the reader is about
\* to be called, or the loop is over, nothing is missing.
C3_OutputFollowsInput ==
    /\ pc \in {"read", "loop_exit", "exit"} => written = fetched
    /\ pc \in {"prep", "chunk", "chunk_loop", "basecall", "stitch", "write"} =>
          /\ Len(fetched) = Len(written) + 1
          /\ written = SubSeq(fetched, 1, Len(written))
          /\ rec.read_id = fetched[Len(fetched)]

C3_Witness ==
    /\ status = "EXIT_SUCCESS"
    /\ err = "none"
    /\ written = <<"r1", "r2">>

\* The reader has returned a negative code that is not a clean end-of-stream.
ReaderError ==
    /\ ncalls > 0
    /\ ret < 0
    /\ (ret # SLOW5_ERR_EOF \/ slow5_errno # SLOW5_ERR_EOF)

\* C4: once the k-th call of the reader reports an error that is not
\* end-of-stream, the run is on its way out and exits with failure, the
\* records written are exactly those of the reads 1..k-1, and from then on
\* the reader is not called and nothing is written.
C4_ReaderErrorAborts ==
    /\ [](ReaderError =>
            /\ pc \in {"loop_exit", "exit"}
            /\ (pc = "exit" => status = "EXIT_FAILURE")
            /\ written = fetched
            /\ Len(written) = ncalls - 1)
    /\ [][ReaderError =>
            /\ ncalls' = ncalls
            /\ written' = written
            /\ status' = "EXIT_FAILURE"]_vars

C4_Witness ==
    /\ err = "reader"
    /\ status = "EXIT_FAILURE"
    /\ ncalls = 2
    /\ Len(written) = 1

\* C5: the ModelRunner instances the driver has created are as many as the
\* configured number of runners.
C5_RunnersAsConfigured ==
    runners # {} => Cardinality(runners) = opt.num_runners

\* C6: with --debug-break N, N > 0, no more than N batches are run.
C6_DebugBreakStops ==
    opt.debug_break > 0 => batchesRun <= opt.debug_break

\* C8: for signal length L >= 1, chunk size C > 0 and overlap 0 <= O < C the
\* chunks start at offset 0 and advance by C - O; they cover [0, L) without
\* gaps, every non-final chunk has length C, and each chunk after the first
\* starts O samples before the end of its predecessor, at a larger offset.
C8_ChunkerContract ==
    pc = "chunker_done" =>
        LET L == signalLen
            C == opt.chunk_size
            O == opt.overlap
            n == Len(chunks)
        IN  /\ n >= 1
            /\ chunks[1].offset = 0
            /\ \A i \in 1..n : chunks[i].len >= 1 /\ chunks[i].len <= C
            /\ \A i \in 1..(n - 1) :
                 /\ chunks[i].len = C
                 /\ chunks[i + 1].offset = chunks[i].offset + (C - O)
                 /\ chunks[i].offset + chunks[i].len - chunks[i + 1].offset = O
                 /\ chunks[i + 1].offset > chunks[i].offset
            /\ chunks[n].offset + chunks[n].len = L
            /\ \A s \in 0..(L - 1) :
                 \E i \in 1..n :
                    chunks[i].offset <= s /\ s < chunks[i].offset + chunks[i].len

C8_Witness ==
    /\ pc = "chunker_done"
    /\ opt.overlap > 0
    /\ Len(chunks) >= 3
    /\ chunks[Len(chunks)].len < opt.chunk_size

\* The exit status after the loop: 0 is returned only after the reader ended
\* the loop with end-of-stream in both its return value and its error
\* indicator; when the loop ends on the error indicator alone, with another
\* negative return value, the run exits with failure.
ExitStatusOfLoop ==
    /\ []((status = "EXIT_SUCCESS" /\ err = "none") =>
            /\ ncalls > 0
            /\ ret = SLOW5_ERR_EOF
            /\ slow5_errno = SLOW5_ERR_EOF)
    /\ [](pc = "loop_exit" => ret < 0 /\ slow5_errno = SLOW5_ERR_EOF)
    /\ [][(pc = "loop_exit" /\ ret # SLOW5_ERR_EOF) =>
            (pc' = "exit" /\ status' = "EXIT_FAILURE")]_vars

====
